---------------------------- MODULE Spec2Model ----------------------------
(***************************************************************************)
(* A circular genome with transposable elements (src/src/genome.py).       *)
(*                                                                         *)
(* Two implementations of the Genome interface are modelled side by side:  *)
(*   LinkedListGenome  a circular doubly linked list of Ft(ft, length)     *)
(*                     runs anchored by a sentinel link, with a dict       *)
(*                     `active` from TE id to link and a `counter`;        *)
(*   ListGenome        a Python list with one cell per nucleotide, a dict  *)
(*                     TE from id to length and a list active_TE.          *)
(* Every action is one call made on both objects with the same arguments,  *)
(* the way a harness replays one script against both.                      *)
(***************************************************************************)
EXTENDS Integers, Sequences, FiniteSets, TLC

(***************************************************************************)
(* Bounds of the model.                                                    *)
(***************************************************************************)
MaxN == 2
MaxLen == 2
MaxTEs == 2
MaxOff == 5
\* The ids a run may issue when insert_te is also called outside its contract.
MaxTEsAny == 2
\* The ids the second LinkedListGenome may issue.
MaxTEsOther == 1

(***************************************************************************)
(* Python values.                                                          *)
(***************************************************************************)
\* What a call gives back: a returned int, a returned None, a raised
\* exception, or no return at all (a loop that never ends).
RetInt(v) == [kind |-> "int", v |-> v]
RetNone == [kind |-> "None", v |-> 0]
Raise(exc) == [kind |-> exc, v |-> 0]
Hang == [kind |-> "hang", v |-> 0]

Exceptions == {"KeyError", "ValueError", "IndexError", "TypeError", "AttributeError"}

abs(x) == IF x < 0 THEN -x ELSE x

SetMin(S) == CHOOSE x \in S : \A y \in S : x <= y
SetMax(S) == CHOOSE x \in S : \A y \in S : x >= y

\* c * k for a one-character string c, as a sequence of characters: Python
\* gives the empty string for k <= 0.
Repeat(c, k) == [i \in 1..k |-> c]

RECURSIVE SeqSum(_)
SeqSum(s) == IF s = <<>> THEN 0 ELSE Head(s) + SeqSum(Tail(s))

(***************************************************************************)
(* An insertion-ordered dict, as the sequence of its items.                *)
(***************************************************************************)
DictKeys(d) == {d[i].k : i \in 1..Len(d)}
DictHas(d, key) == key \in DictKeys(d)
DictGet(d, key) == d[CHOOSE i \in 1..Len(d) : d[i].k = key].v
DictPop(d, key) == SelectSeq(d, LAMBDA e : e.k # key)
\* d[key] = value: an existing key keeps its place, a new one goes last.
DictSet(d, key, value) ==
    IF DictHas(d, key)
    THEN [i \in 1..Len(d) |-> IF d[i].k = key THEN [k |-> key, v |-> value] ELSE d[i]]
    ELSE Append(d, [k |-> key, v |-> value])

(***************************************************************************)
(* Link, insert_next, Ft.                                                  *)
(*                                                                         *)
(* Links live in a heap addressed by 0, 1, 2, ...; a LinkedListGenome      *)
(* value g is [val, prev, next, head, active, counter], where val, prev    *)
(* and next are the fields of every allocated link.                        *)
(***************************************************************************)
Ft(ft, length) == [ft |-> ft, length |-> length]
\* The sentinel's val.
None == [ft |-> -1, length |-> 0]
IsNone(v) == v.ft = -1

Links(g) == DOMAIN g.val

\* Link(val, p, n): a fresh address.
Link(g, v, p, n) ==
    LET a == Cardinality(Links(g))
    IN [g EXCEPT !.val = @ @@ (a :> v), !.prev = @ @@ (a :> p), !.next = @ @@ (a :> n)]

\* insert_next without its last line: the link after the new one keeps its
\* old prev.
insert_next_one_way(g, link, v) ==
    LET new_link == Cardinality(Links(g))
        g1 == Link(g, v, link, g.next[link])
    IN [g1 EXCEPT !.next[g1.prev[new_link]] = new_link]

insert_next(g, link, v) ==
    LET new_link == Cardinality(Links(g))
        g1 == Link(g, v, link, g.next[link])
        g2 == [g1 EXCEPT !.next[g1.prev[new_link]] = new_link]
        g3 == [g2 EXCEPT !.prev[g2.next[new_link]] = new_link]
    IN g3

(***************************************************************************)
(* LinkedListGenome.                                                       *)
(***************************************************************************)
\* __init__(n), with the class attributes active = {} and counter = 0.
LinkedListGenome_init(n) ==
    LET g0 == [val |-> (0 :> None), prev |-> (0 :> 0), next |-> (0 :> 0),
               head |-> 0, active |-> <<>>, counter |-> 0]
    IN insert_next(g0, g0.prev[g0.head], Ft(0, n))

\* __init__(n) of a further LinkedListGenome in the heap of g: the new object
\* gets a sentinel and one run of its own; self.active and self.counter are
\* the attributes of the class, so active is the dict every instance uses
\* and counter reads 0 until the instance assigns its own.
LinkedListGenome_init_in(g, n) ==
    LET h == Cardinality(Links(g))
        g1 == [Link(g, None, h, h) EXCEPT !.head = h, !.counter = 0]
    IN insert_next(g1, g1.prev[g1.head], Ft(0, n))

\* iter_pos: the (link, running end position) pairs from head.next to head.
RECURSIVE iter_pos_from(_, _, _)
iter_pos_from(g, ft, count) ==
    IF ft = g.head THEN <<>>
    ELSE LET c == count + g.val[ft].length
         IN <<[ft |-> ft, end |-> c]>> \o iter_pos_from(g, g.next[ft], c)

iter_pos(g) == iter_pos_from(g, g.next[g.head], 0)

\* __iter__: the vals from head.next to head.
LinkedListGenome_iter(g) ==
    LET it == iter_pos(g) IN [i \in 1..Len(it) |-> g.val[it[i].ft]]

disable_feature(g, ft) ==
    LET g1 == [g EXCEPT !.val[ft] = Ft(2, g.val[ft].length)]
        hits == {i \in 1..Len(g1.active) : g1.active[i].v = ft}
    IN IF hits = {} THEN g1
       ELSE [g1 EXCEPT !.active = DictPop(g1.active, g1.active[SetMin(hits)].k)]

\* insert_te_at_pos without the collision: the run that is split stays as it is.
insert_te_at_pos_keeps_active(g, length, ft, half_1, half_2) ==
    LET g2 == insert_next(g, ft, Ft(1, length))
        g3 == [g2 EXCEPT !.val[ft] = Ft(g2.val[ft].ft, half_1)]
        g4 == insert_next(g3, g3.next[ft], Ft(g3.val[ft].ft, half_2))
        g5 == [g4 EXCEPT !.counter = @ + 1]
    IN [g5 EXCEPT !.active = DictSet(g5.active, g5.counter, g5.next[ft])]

insert_te_at_pos(g, length, ft, half_1, half_2) ==
    LET g1 == IF g.val[ft].ft = 1 THEN disable_feature(g, ft) ELSE g
        g2 == insert_next(g1, ft, Ft(1, length))
        g3 == [g2 EXCEPT !.val[ft] = Ft(g2.val[ft].ft, half_1)]
        g4 == insert_next(g3, g3.next[ft], Ft(g3.val[ft].ft, half_2))
        g5 == [g4 EXCEPT !.counter = @ + 1]
    IN [g5 EXCEPT !.active = DictSet(g5.active, g5.counter, g5.next[ft])]

LinkedListGenome_insert_te(g, pos, length) ==
    LET it == iter_pos(g)
        hits == {i \in 1..Len(it) : ~(it[i].end <= pos)}
    IN IF hits = {} THEN [g |-> g, ret |-> RetNone]
       ELSE LET ft == it[SetMin(hits)].ft
                end == it[SetMin(hits)].end
                half_1 == g.val[ft].length - end + pos
                half_2 == end - pos
                g1 == insert_te_at_pos(g, length, ft, half_1, half_2)
            IN [g |-> g1, ret |-> RetInt(g1.counter)]

\* The two while loops of copy_te.  step is "next" or "prev".  The loop ends
\* with offset <= 0 at link ft; it raises AttributeError when it reads
\* .length of a val that is None; and it never ends when a whole turn of the
\* ring does not lower offset (the lengths of the ring sum to 0 or less) and
\* the first turn did not end it.
RingLinks(g, ft) ==
    LET RECURSIVE Go(_, _)
        Go(x, seen) == IF x \in seen THEN seen ELSE Go(g.next[x], seen \cup {x})
    IN Go(ft, {})

RingSum(g, ft) ==
    LET S == {x \in RingLinks(g, ft) : ~IsNone(g.val[x])}
        RECURSIVE Sum(_)
        Sum(T) == IF T = {} THEN 0
                  ELSE LET x == CHOOSE y \in T : TRUE
                       IN g.val[x].length + Sum(T \ {x})
    IN Sum(S)

\* The while loop without its last line, offset -= ft.val.length: a loop
\* that is entered is never left.
walk_keeps_offset(g, step, ft, offset, turns) ==
    IF ~(offset > 0) THEN [kind |-> "done", ft |-> ft, offset |-> offset]
    ELSE [kind |-> "hang", ft |-> ft, offset |-> offset]

RECURSIVE walk(_, _, _, _, _)
walk(g, step, ft, offset, turns) ==
    IF ~(offset > 0) THEN [kind |-> "done", ft |-> ft, offset |-> offset]
    ELSE IF turns >= Cardinality(RingLinks(g, ft)) /\ RingSum(g, ft) <= 0
         THEN [kind |-> "hang", ft |-> ft, offset |-> offset]
    ELSE LET f1 == IF step = "next" THEN g.next[ft] ELSE g.prev[ft]
             f2 == IF f1 = g.head
                   THEN (IF step = "next" THEN g.next[f1] ELSE g.prev[f1])
                   ELSE f1
         IN IF IsNone(g.val[f2])
            THEN [kind |-> "AttributeError", ft |-> f2, offset |-> offset]
            ELSE walk(g, step, f2, offset - g.val[f2].length, turns + 1)

LinkedListGenome_copy_te(g, te, offset) ==
    IF ~DictHas(g.active, te) THEN [g |-> g, ret |-> Raise("KeyError")]
    ELSE
    LET temp == DictGet(g.active, te)
    IN IF g.val[temp].ft # 1 THEN [g |-> g, ret |-> RetNone]
       ELSE IF offset > 0
       THEN LET w == walk(g, "next", temp, offset - g.val[temp].length, 0)
                half_1 == w.offset + g.val[w.ft].length
                half_2 == abs(w.offset)
                g1 == insert_te_at_pos(g, g.val[temp].length, w.ft, half_1, half_2)
            IN IF w.kind = "hang" THEN [g |-> g, ret |-> Hang]
               ELSE IF w.kind # "done" THEN [g |-> g, ret |-> Raise(w.kind)]
               ELSE [g |-> g1, ret |-> RetInt(g1.counter)]
       ELSE LET w == walk(g, "prev", temp, offset * (-1), 0)
                g1 == insert_te_at_pos(g, g.val[temp].length, w.ft,
                                       abs(w.offset), w.offset + g.val[w.ft].length)
            IN IF w.kind = "hang" THEN [g |-> g, ret |-> Hang]
               ELSE IF w.kind # "done" THEN [g |-> g, ret |-> Raise(w.kind)]
               ELSE [g |-> g1, ret |-> RetInt(g1.counter)]

\* disable_te that empties the index instead of popping te.
LinkedListGenome_disable_te_clears(g, te) ==
    IF ~DictHas(g.active, te) THEN [g |-> g, ret |-> Raise("KeyError")]
    ELSE LET ft == DictGet(g.active, te)
             g1 == [g EXCEPT !.active = <<>>]
         IN [g |-> [g1 EXCEPT !.val[ft] = Ft(2, g1.val[ft].length)], ret |-> RetNone]

LinkedListGenome_disable_te(g, te) ==
    IF ~DictHas(g.active, te) THEN [g |-> g, ret |-> Raise("KeyError")]
    ELSE LET ft == DictGet(g.active, te)
             g1 == [g EXCEPT !.active = DictPop(g.active, te)]
         IN [g |-> [g1 EXCEPT !.val[ft] = Ft(2, g1.val[ft].length)], ret |-> RetNone]

\* active_tes(): list(self.active.keys()).
LinkedListGenome_active_tes(g) == [i \in 1..Len(g.active) |-> g.active[i].k]

\* __len__: len(self.iter_pos) is len() of a bound method, which has no
\* __len__: Python raises TypeError, whatever the ring holds.
LinkedListGenome_len(g) == Raise("TypeError")

\* __str__.
RECURSIVE StrOf(_)
StrOf(elements) ==
    IF elements = <<>> THEN <<>>
    ELSE LET element == Head(elements)
         IN (IF element.ft = 0 THEN Repeat("-", element.length)
             ELSE IF element.ft = 1 THEN Repeat("A", element.length)
             ELSE Repeat("x", element.length)) \o StrOf(Tail(elements))

LinkedListGenome_str(g) == StrOf(LinkedListGenome_iter(g))

(***************************************************************************)
(* ListGenome.                                                             *)
(*                                                                         *)
(* A ListGenome value a is [nucleotide, TE, active_TE].  A cell of         *)
(* nucleotide is the str '-' or 'x', or the int id of a TE: a cell is      *)
(* [int, str] with str = "" for an int and int = 0 for a str.              *)
(***************************************************************************)
IntCell(id) == [int |-> id, str |-> ""]
StrCell(c) == [int |-> 0, str |-> c]
isinstance_int(x) == x.str = ""

ListGenome_init(n) ==
    [nucleotide |-> [i \in 1..n |-> StrCell("-")], TE |-> <<>>, active_TE |-> <<>>]

InList(x, l) == \E i \in 1..Len(l) : l[i] = x
\* l.remove(x): the first occurrence goes.
ListRemove(l, x) ==
    LET i == SetMin({j \in 1..Len(l) : l[j] = x})
    IN SubSeq(l, 1, i - 1) \o SubSeq(l, i + 1, Len(l))

\* ListGenome.__len__.
ListGenome_len(a) == Len(a.nucleotide)

ListGenome_disable_te(a, te) ==
    IF ~InList(te, a.active_TE) THEN [a |-> a, ret |-> Raise("ValueError")]
    ELSE
    LET a1 == [a EXCEPT !.active_TE = ListRemove(a.active_TE, te)]
        n == ListGenome_len(a1)
        \* Python indices i with nucleotide[i] == te
        found == {i \in 0..(n - 1) : a1.nucleotide[i + 1] = IntCell(te)}
    IN IF found = {} THEN [a |-> a1, ret |-> RetNone]
       ELSE LET i == SetMin(found)
                length == DictGet(a1.TE, te)
                \* nucleotide[i+j] = 'x' for j in range(length); the write
                \* at an index >= n raises IndexError, the earlier ones done
                written == {i + j : j \in 0..(length - 1)} \cap (0..(n - 1))
                a2 == [a1 EXCEPT !.nucleotide =
                          [p \in 1..n |-> IF (p - 1) \in written THEN StrCell("x") ELSE @[p]]]
            IN IF i + length > n THEN [a |-> a2, ret |-> Raise("IndexError")]
               ELSE [a |-> a2, ret |-> RetNone]

ListGenome_insert_te(a, pos, length) ==
    LET TE_ID == IF Len(a.TE) # 0 THEN SetMax(DictKeys(a.TE)) + 1 ELSE 1
        a1 == [a EXCEPT !.TE = DictSet(a.TE, TE_ID, length),
                        !.active_TE = Append(a.active_TE, TE_ID)]
        n == ListGenome_len(a1)
        \* nucleotide[pos]: a negative index counts from the end
        at == IF pos < 0 THEN pos + n ELSE pos
        hit == a1.nucleotide[at + 1]
        d == IF isinstance_int(hit) /\ InList(hit.int, a1.active_TE)
             THEN ListGenome_disable_te(a1, hit.int)
             ELSE [a |-> a1, ret |-> RetNone]
        a2 == d.a
        \* nucleotide[pos:pos] = [TE_ID]*length: a slice index is clipped
        cut == IF pos < 0 THEN (IF pos + n < 0 THEN 0 ELSE pos + n)
               ELSE (IF pos > n THEN n ELSE pos)
        a3 == [a2 EXCEPT !.nucleotide =
                  SubSeq(a2.nucleotide, 1, cut) \o Repeat(IntCell(TE_ID), length)
                  \o SubSeq(a2.nucleotide, cut + 1, n)]
    IN IF at < 0 \/ at >= n THEN [a |-> a1, ret |-> Raise("IndexError")]
       ELSE IF d.ret.kind \in Exceptions THEN d
       ELSE [a |-> a3, ret |-> RetInt(TE_ID)]

ListGenome_copy_te(a, te, offset) ==
    IF ~InList(te, a.active_TE) THEN [a |-> a, ret |-> RetNone]
    ELSE
    LET n == ListGenome_len(a)
        found == {i \in 0..(n - 1) : a.nucleotide[i + 1] = IntCell(te)}
        pos == SetMin(found)
        res == (pos + offset) % n
    IN IF found = {} THEN [a |-> a, ret |-> Raise("ValueError")]
       ELSE ListGenome_insert_te(a, res, DictGet(a.TE, te))

ListGenome_active_tes(a) == a.active_TE

\* ListGenome.__str__.
ListGenome_str(a) ==
    [i \in 1..Len(a.nucleotide) |->
        IF isinstance_int(a.nucleotide[i]) THEN "A" ELSE a.nucleotide[i].str]

(***************************************************************************)
(* Positions in the ring: where a link's run starts in the rendered        *)
(* genome, and the run that covers a position.                             *)
(***************************************************************************)
Total(g) == SeqSum([i \in 1..Len(iter_pos(g)) |-> g.val[iter_pos(g)[i].ft].length])

StartOf(g, ft) ==
    LET it == iter_pos(g)
        i == CHOOSE j \in 1..Len(it) : it[j].ft = ft
    IN it[i].end - g.val[ft].length

\* The positions link ft covers.
Footprint(g, ft) == StartOf(g, ft)..(StartOf(g, ft) + g.val[ft].length - 1)

(***************************************************************************)
(* The state: the two genomes; the call that has just returned (call, with *)
(* what each object gave back in ret and the two genomes as they were      *)
(* before it in before), until the caller has taken the results and makes  *)
(* the next call; and the history the contract speaks of (the length at    *)
(* construction, the lengths added by calls that returned an id, the link  *)
(* each issued id was born in, and the ids that were issued and since      *)
(* neither disabled by disable_te nor hit by a later landing position).    *)
(*                                                                         *)
(* linked holds the heap of links and the class attribute active together  *)
(* with the head and counter of the first LinkedListGenome; other holds    *)
(* the head and counter of a second LinkedListGenome in the same heap,     *)
(* once one is constructed.  issued lists, for each genome, the ids its     *)
(* calls have returned, in call order.                                     *)
(***************************************************************************)
VARIABLES linked, list, call, ret, before, n0, added, born, expected, other, issued

vars == <<linked, list, call, ret, before, n0, added, born, expected, other, issued>>

\* No second LinkedListGenome yet.
NoOther == [head |-> -1, counter |-> 0]

\* The state after LinkedListGenome(n) and ListGenome(n).
Constructed(n) ==
    /\ linked = LinkedListGenome_init(n)
    /\ list = ListGenome_init(n)
    /\ call = [op |-> "init", x |-> n, y |-> 0]
    /\ ret = [linked |-> RetNone, list |-> RetNone]
    /\ before = [linked |-> LinkedListGenome_init(n), list |-> ListGenome_init(n)]
    /\ n0 = n
    /\ added = 0
    /\ born = <<>>
    /\ expected = {}
    /\ other = NoOther
    /\ issued = [linked |-> <<>>, list |-> <<>>, other |-> <<>>]

Init == \E n \in 1..MaxN : Constructed(n)

\* Link ft is in the ring of g.
InRing(g, ft) == \E j \in 1..Len(iter_pos(g)) : iter_pos(g)[j].ft = ft

\* The ids of `expected` whose run, as it lies in g, covers position p.
HitBy(g, p) ==
    {id \in expected : InRing(g, DictGet(born, id)) /\ p \in Footprint(g, DictGet(born, id))}

\* Where copy_te(te, offset) is to land: offset nucleotides from the start
\* of te's run, around the circle.
LandingPos(g, te, offset) ==
    IF Total(g) > 0 /\ InRing(g, DictGet(g.active, te))
    THEN (StartOf(g, DictGet(g.active, te)) + offset) % Total(g) ELSE 0

NoCall == [op |-> "none", x |-> 0, y |-> 0]
Idle == call = NoCall

Record(op, x, y, r, s, p, length) ==
    /\ linked' = r.g
    /\ list' = s.a
    /\ call' = [op |-> op, x |-> x, y |-> y]
    /\ ret' = [linked |-> r.ret, list |-> s.ret]
    /\ before' = [linked |-> linked, list |-> list]
    /\ n0' = n0
    /\ other' = other
    /\ issued' = [issued EXCEPT
                    !.linked = IF r.ret.kind = "int" THEN Append(@, r.ret.v) ELSE @,
                    !.list = IF s.ret.kind = "int" THEN Append(@, s.ret.v) ELSE @]
    /\ IF r.ret.kind = "int"
       THEN /\ added' = added + length
            /\ born' = DictSet(born, r.ret.v, DictGet(r.g.active, r.ret.v))
            /\ expected' = (expected \ HitBy(linked, p)) \cup {r.ret.v}
       ELSE UNCHANGED <<added, born, expected>>

\* The model stops issuing ids at `limit`: from there on only the calls that
\* change neither genome are made.
Room(limit) == linked.counter < limit /\ Len(list.TE) < limit

\* insert_te(pos, length) within the contract: 0 <= pos < length of the
\* genome, length > 0.
InsertTe ==
    /\ Idle
    /\ Room(MaxTEs)
    /\ \E pos \in 0..(Total(linked) - 1), length \in 1..MaxLen :
        \E r \in {LinkedListGenome_insert_te(linked, pos, length)},
           s \in {ListGenome_insert_te(list, pos, length)} :
           Record("insert_te", pos, length, r, s, pos, length)

\* copy_te(te, offset), for any id and any offset.
CopyTe(limit) ==
    /\ Idle
    /\ \E te \in 1..(limit + 1), offset \in (-MaxOff)..MaxOff :
        \E r \in {LinkedListGenome_copy_te(linked, te, offset)},
           s \in {ListGenome_copy_te(list, te, offset)} :
           /\ Room(limit) \/ (r.g = linked /\ s.a = list)
           /\ Record("copy_te", te, offset, r, s,
                     IF r.ret.kind = "int" THEN LandingPos(linked, te, offset) ELSE 0,
                     IF r.ret.kind = "int"
                     THEN linked.val[DictGet(linked.active, te)].length ELSE 0)

\* disable_te(te), for any id.
DisableTe(limit) ==
    /\ Idle
    /\ \E te \in 1..(limit + 1) :
        \E r \in {LinkedListGenome_disable_te(linked, te)},
           s \in {ListGenome_disable_te(list, te)} :
        /\ linked' = r.g
        /\ list' = s.a
        /\ call' = [op |-> "disable_te", x |-> te, y |-> 0]
        /\ ret' = [linked |-> r.ret, list |-> s.ret]
        /\ before' = [linked |-> linked, list |-> list]
        /\ expected' = expected \ {te}
        /\ UNCHANGED <<n0, added, born, other, issued>>

\* The caller has read what the call gave back: single-threaded, one call
\* at a time, the next one starts from here.
Returned ==
    /\ ~Idle
    /\ call' = NoCall
    /\ ret' = [linked |-> RetNone, list |-> RetNone]
    /\ before' = [linked |-> linked, list |-> list]
    /\ UNCHANGED <<linked, list, n0, added, born, expected, other, issued>>

Next == Returned \/ InsertTe \/ CopyTe(MaxTEs) \/ DisableTe(MaxTEs)

Spec == Init /\ [][Next]_vars

\* insert_te(pos, length) with any arguments, also outside the contract.
InsertTeAny ==
    /\ Idle
    /\ Room(MaxTEsAny)
    /\ \E pos \in (-1)..Total(linked), length \in (-1)..MaxLen :
        \E r \in {LinkedListGenome_insert_te(linked, pos, length)},
           s \in {ListGenome_insert_te(list, pos, length)} :
           Record("insert_te", pos, length, r, s, pos, length)

NextAny == Returned \/ InsertTeAny \/ CopyTe(MaxTEsAny) \/ DisableTe(MaxTEsAny)

SpecAny == Init /\ [][NextAny]_vars

\* The genome of ten nucleotides the scenarios of the interface start from.
InitScenario == Constructed(10)

SpecScenario == InitScenario /\ [][Next]_vars

(***************************************************************************)
(* A second LinkedListGenome in the same process.  Its calls run on the    *)
(* heap and the class attributes in `linked`, with its own head and        *)
(* counter; ret.linked holds what its call gave back.  ListGenome takes    *)
(* no part in these calls.                                                 *)
(***************************************************************************)
\* self, for a call on the second genome.
OtherSelf == [linked EXCEPT !.head = other.head, !.counter = other.counter]

\* The state a call on the second genome leaves, and what it gave back.
OtherRecord(op, x, y, r) ==
    /\ linked' = [r.g EXCEPT !.head = linked.head, !.counter = linked.counter]
    /\ other' = [head |-> r.g.head, counter |-> r.g.counter]
    /\ call' = [op |-> op, x |-> x, y |-> y]
    /\ ret' = [linked |-> r.ret, list |-> RetNone]
    /\ before' = [linked |-> linked, list |-> list]
    /\ issued' = [issued EXCEPT
                    !.other = IF r.ret.kind = "int" THEN Append(@, r.ret.v) ELSE @]
    /\ UNCHANGED <<list, n0, added, born, expected>>

\* LinkedListGenome(n), a second time.
OtherInit ==
    /\ Idle
    /\ other = NoOther
    /\ \E n \in 1..MaxN :
        OtherRecord("other.init", n, 0,
                    [g |-> LinkedListGenome_init_in(linked, n), ret |-> RetNone])

OtherExists == other # NoOther

OtherInsertTe ==
    /\ Idle
    /\ OtherExists
    /\ other.counter < MaxTEsOther
    /\ \E pos \in 0..(Total(OtherSelf) - 1), length \in 1..MaxLen :
        \E r \in {LinkedListGenome_insert_te(OtherSelf, pos, length)} :
           OtherRecord("other.insert_te", pos, length, r)

OtherCopyTe ==
    /\ Idle
    /\ OtherExists
    /\ \E te \in 1..(MaxTEs + 1), offset \in (-MaxOff)..MaxOff :
        \E r \in {LinkedListGenome_copy_te(OtherSelf, te, offset)} :
           /\ other.counter < MaxTEsOther \/ r.g = OtherSelf
           /\ OtherRecord("other.copy_te", te, offset, r)

OtherDisableTe ==
    /\ Idle
    /\ OtherExists
    /\ \E te \in 1..(MaxTEs + 1) :
        \E r \in {LinkedListGenome_disable_te(OtherSelf, te)} :
           OtherRecord("other.disable_te", te, 0, r)

NextTwo ==
    \/ Returned \/ InsertTe \/ CopyTe(MaxTEs) \/ DisableTe(MaxTEs)
    \/ OtherInit \/ OtherInsertTe \/ OtherCopyTe \/ OtherDisableTe

SpecTwo == Init /\ [][NextTwo]_vars

(***************************************************************************)
(* What the claims speak of.                                               *)
(***************************************************************************)
\* active_tes() as a set.
ActiveIds(g) == {LinkedListGenome_active_tes(g)[i] : i \in 1..Len(g.active)}
ListActiveIds(a) == {ListGenome_active_tes(a)[i] : i \in 1..Len(a.active_TE)}

\* The positions the run of active id covers.
FootprintOf(g, id) == Footprint(g, DictGet(g.active, id))

\* Where the run of the id issued last starts.
NewStart(g) == StartOf(g, DictGet(g.active, g.counter))

Failed(r) == r.kind \in Exceptions

(***************************************************************************)
(* C1.  The two genomes, given the same calls from the same length, render *)
(* the same string and have the same set of active ids after every call.   *)
(* Violated: copy_te(te, offset) with offset equal to the length of te's   *)
(* run disables te in the linked genome and not in the list genome.        *)
(***************************************************************************)
C1_SameRenderAndActive ==
    /\ LinkedListGenome_str(linked) = ListGenome_str(list)
    /\ ActiveIds(linked) = ListActiveIds(list)

(***************************************************************************)
(* C2.  active_tes() of the linked genome is exactly the set of ids issued *)
(* and since neither passed to disable_te nor hit by the landing position  *)
(* of a later insert_te or copy_te.  Violated: a copy that lands on the    *)
(* position right after a run disables that run (see C7).                  *)
(***************************************************************************)
C2_ActiveIsIssuedNotKilled == ActiveIds(linked) = expected

(***************************************************************************)
(* C3.  len() of the linked genome is the length at construction plus the  *)
(* lengths added by the insert_te and copy_te calls that returned an id.   *)
(* Violated: __len__ raises TypeError.                                     *)
(***************************************************************************)
C3_LenIsInitialPlusAdded == LinkedListGenome_len(linked) = RetInt(n0 + added)

(***************************************************************************)
(* C4.  copy_te on the linked genome with an id that is not active returns *)
(* None and leaves ring, index and counter as they were.  Violated: it     *)
(* raises KeyError (nothing is changed, but nothing is returned).          *)
(***************************************************************************)
C4_CopyInactive == call.op = "copy_te" /\ call.x \notin ActiveIds(before.linked)

C4_CopyInactiveReturnsNone ==
    C4_CopyInactive => ret.linked = RetNone /\ linked = before.linked

(***************************************************************************)
(* C5.  disable_te with an id that is not active completes normally and    *)
(* leaves render and active_tes() as they were, on both genomes.           *)
(* Violated: the linked genome raises KeyError, the list genome            *)
(* ValueError.                                                             *)
(***************************************************************************)
C5_DisableInactiveIsNoOp ==
    /\ call.op = "disable_te" /\ call.x \notin ActiveIds(before.linked)
         => /\ ~Failed(ret.linked)
            /\ LinkedListGenome_str(linked) = LinkedListGenome_str(before.linked)
            /\ ActiveIds(linked) = ActiveIds(before.linked)
    /\ call.op = "disable_te" /\ call.x \notin ListActiveIds(before.list)
         => /\ ~Failed(ret.list)
            /\ ListGenome_str(list) = ListGenome_str(before.list)
            /\ ListActiveIds(list) = ListActiveIds(before.list)

(***************************************************************************)
(* C6.  From any state of the linked genome with length T and any active   *)
(* id, copy_te(id, offset) and copy_te(id, offset - T) put the new run at  *)
(* the same position of the rendered genome.  Violated: a forward walk     *)
(* that ends exactly at the end of the last run puts the new run at        *)
(* position T, the backward walk at position 0.                            *)
(***************************************************************************)
C6_Pairs ==
    {<<te, offset>> \in ActiveIds(linked) \X ((-MaxOff)..MaxOff) :
        /\ LinkedListGenome_copy_te(linked, te, offset).ret.kind = "int"
        /\ LinkedListGenome_copy_te(linked, te, offset - Total(linked)).ret.kind = "int"}

C6_CircularSamePosition ==
    \A p \in C6_Pairs :
        NewStart(LinkedListGenome_copy_te(linked, p[1], p[2]).g)
          = NewStart(LinkedListGenome_copy_te(linked, p[1], p[2] - Total(linked)).g)

(***************************************************************************)
(* C7.  A copy_te that returns an id disables an active element only if    *)
(* the landing position (start of the source plus offset, modulo the       *)
(* length of the genome) lies inside that element's run; so the source     *)
(* stays active when the landing position is outside its run.  Violated:   *)
(* with offset equal to the length of the source the landing position is   *)
(* the one right after the source, and the source is disabled.             *)
(***************************************************************************)
C7_CopyDisablesOnlyWhatItHits ==
    call.op = "copy_te" /\ ret.linked.kind = "int" =>
        \A id \in ActiveIds(before.linked) \ ActiveIds(linked) :
            LandingPos(before.linked, call.x, call.y) \in FootprintOf(before.linked, id)

(***************************************************************************)
(* C8.  insert_te(pos, L) with pos inside the run of an active id S: after *)
(* it S is not active, the new id is, every position of S's former run     *)
(* renders 'x' and the L positions from pos render 'A'.                    *)
(***************************************************************************)
C8_Collides(S) ==
    /\ call.op = "insert_te" /\ ret.linked.kind = "int"
    /\ S \in ActiveIds(before.linked)
    /\ call.x \in FootprintOf(before.linked, S)

C9_InsertOutOfRangeChangesNothing ==
    call.op = "insert_te" =>
        /\ (call.x < 0 \/ call.x >= Total(before.linked))
             => ret.linked.kind # "int" /\ linked = before.linked
        /\ (call.x < 0 \/ call.x >= ListGenome_len(before.list))
             => ret.list.kind # "int" /\ list = before.list

(***************************************************************************)
(* C10.  insert_te(pos, length) with length <= 0 is rejected: no id is     *)
(* issued or registered and no link is added to the ring.  Violated: the   *)
(* linked genome adds an active run of that length and returns its id.     *)
(***************************************************************************)
C10_InsertNonPositiveLengthRejected ==
    call.op = "insert_te" /\ call.y <= 0 =>
        /\ ret.linked.kind # "int"
        /\ linked.counter = before.linked.counter
        /\ ActiveIds(linked) = ActiveIds(before.linked)
        /\ Links(linked) = Links(before.linked)

(***************************************************************************)
(* C11.  The ring and the id index of a LinkedListGenome belong to that    *)
(* one instance: a LinkedListGenome just constructed has an empty          *)
(* active_tes(), and no insert_te, copy_te or disable_te on one instance   *)
(* changes active_tes() or the index entries of another.                   *)
(* Violated: active is an attribute of the class, one dict for every       *)
(* instance, so a genome constructed after another has issued an id        *)
(* starts with that id in active_tes().                                    *)
(***************************************************************************)
OtherCalls == {"other.insert_te", "other.copy_te", "other.disable_te"}
FirstCalls == {"insert_te", "copy_te", "disable_te"}

\* self of the second genome, in the heap as it was before the call.
OtherSelfBefore == [before.linked EXCEPT !.head = other.head, !.counter = other.counter]

C11_IndexOfOneInstance ==
    /\ call.op = "other.init" => LinkedListGenome_active_tes(OtherSelf) = <<>>
    /\ call.op \in OtherCalls =>
          /\ LinkedListGenome_active_tes(linked) = LinkedListGenome_active_tes(before.linked)
          /\ linked.active = before.linked.active
    /\ (call.op \in FirstCalls /\ OtherExists) =>
          /\ LinkedListGenome_active_tes(OtherSelf) = LinkedListGenome_active_tes(OtherSelfBefore)
          /\ OtherSelf.active = OtherSelfBefore.active

(***************************************************************************)
(* C12.  Within one genome the ids returned by successful insert_te and    *)
(* copy_te calls are 1, 2, 3, ... in call order: the first is 1, each is   *)
(* greater than every earlier one, and no id is issued a second time.      *)
(* Violated for ListGenome: insert_te with pos = len registers TE_ID in    *)
(* self.TE before self.nucleotide[pos] raises IndexError, so the id is     *)
(* used up by a call that failed and the next successful call returns 2.   *)
(***************************************************************************)
C12_CountsUp(ids) == \A i \in 1..Len(ids) : ids[i] = i

C12_IdsCountUpFromOne ==
    /\ C12_CountsUp(issued.linked)
    /\ C12_CountsUp(issued.list)
    /\ C12_CountsUp(issued.other)

(***************************************************************************)
(* C13.  Scenario 1: on a newly constructed genome of length 10,           *)
(* insert_te(3, 2) returns id 1, after which the genome renders as         *)
(* "---AA-----" and its length is 12.                                      *)
(* Violated: the id is 1, but the render has twelve characters,            *)
(* "---AA-------", and len() raises TypeError.                             *)
(***************************************************************************)
C13_Scenario1Call ==
    /\ call = [op |-> "insert_te", x |-> 3, y |-> 2]
    /\ before.linked = LinkedListGenome_init(10)

C13_Scenario1 ==
    C13_Scenario1Call =>
        /\ ret.linked = RetInt(1)
        /\ LinkedListGenome_str(linked) = Repeat("-", 3) \o Repeat("A", 2) \o Repeat("-", 5)
        /\ LinkedListGenome_len(linked) = RetInt(12)

(***************************************************************************)
(* C14.  After every completed insert_te, copy_te or disable_te called     *)
(* with 0 <= pos < total and length > 0, every segment of the ring other   *)
(* than the sentinel has length > 0, also when the position is the first   *)
(* of a segment or a copy lands on a segment boundary.                     *)
(* Violated: insert_te at the first position of a segment splits it into   *)
(* a remnant of length 0 and a remnant holding everything.                 *)
(***************************************************************************)
\* The segments of the ring of g, in ring order.
Segments(g) == [j \in 1..Len(iter_pos(g)) |-> g.val[iter_pos(g)[j].ft]]

C14_SegmentsPositive ==
    \A j \in 1..Len(Segments(linked)) : Segments(linked)[j].length > 0

(***************************************************************************)
(* C15.  After every completed call on a LinkedListGenome its id index and *)
(* its ring agree: every segment of the ring of kind 1 (active) is the     *)
(* value of exactly one index entry, and no index entry refers to a        *)
(* segment of kind 0 or 2 or to a node outside this genome's ring.         *)
(* Violated: the index is the dict of the class, so once a second genome   *)
(* exists the index of each lists the nodes of the other's ring.           *)
(***************************************************************************)
C15_EntriesOf(g, ft) == {i \in 1..Len(g.active) : g.active[i].v = ft}

C15_IndexAgreesWithRing(g) ==
    /\ \A j \in 1..Len(iter_pos(g)) :
          g.val[iter_pos(g)[j].ft].ft = 1 =>
              Cardinality(C15_EntriesOf(g, iter_pos(g)[j].ft)) = 1
    /\ \A i \in 1..Len(g.active) :
          /\ InRing(g, g.active[i].v)
          /\ g.val[g.active[i].v].ft = 1

C15_IndexAndRingAgree ==
    /\ C15_IndexAgreesWithRing(linked)
    /\ OtherExists => C15_IndexAgreesWithRing(OtherSelf)

(***************************************************************************)
(* C16.  The ring of a LinkedListGenome stays a well-formed cycle: for     *)
(* every node x reachable from the sentinel x.next.prev is x and           *)
(* x.prev.next is x, following next from the sentinel comes back to the    *)
(* sentinel after visiting every node exactly once, and the sentinel is    *)
(* the one node that carries no segment.                                   *)
(***************************************************************************)
RECURSIVE C16_Follow(_, _, _)
\* The link k steps of next after x.
C16_Follow(g, x, k) == IF k = 0 THEN x ELSE C16_Follow(g, g.next[x], k - 1)

C16_WellFormed(g) ==
    LET R == RingLinks(g, g.head)
    IN /\ \A x \in R : g.prev[g.next[x]] = x /\ g.next[g.prev[x]] = x
       /\ C16_Follow(g, g.head, Cardinality(R)) = g.head
       /\ \A k \in 1..(Cardinality(R) - 1) : C16_Follow(g, g.head, k) # g.head
       /\ {x \in R : IsNone(g.val[x])} = {g.head}

C16_RingWellFormed == C16_WellFormed(linked)

\* A call has put new links into the ring, and the ring holds more than one
\* element and its remnants.
C16_Witness ==
    /\ call.op \in {"insert_te", "copy_te"}
    /\ ret.linked.kind = "int"
    /\ Cardinality(RingLinks(linked, linked.head)) > Cardinality(RingLinks(before.linked, linked.head))
    /\ Cardinality(RingLinks(linked, linked.head)) >= 6
    /\ C16_WellFormed(linked)

(***************************************************************************)
(* C17.  Every split made by insert_te or copy_te conserves length: the    *)
(* two remnants sum to the length the segment had, so the lengths of the   *)
(* genome's segments sum after the call to the sum before plus the         *)
(* inserted length; the ring gains exactly two nodes, and no segment is    *)
(* removed or merged.                                                      *)
(* Violated: the id index is shared by all instances, so copy_te finds     *)
(* under this genome's id the node a second genome registered under the    *)
(* same id and splits a segment of that genome's ring; the call returns    *)
(* an id and this genome is as long as before.                             *)
(***************************************************************************)
\* The call put a new element into the genome: insert_te, or copy_te of an
\* id this genome issued in an earlier call.
C17_Inserting ==
    /\ call.op \in {"insert_te", "copy_te"}
    /\ ret.linked.kind = "int"
    /\ call.op = "copy_te" =>
          \E i \in 1..(Len(issued.linked) - 1) : issued.linked[i] = call.x

\* The length of the element the call was to put in.
C17_InsertedLength ==
    IF call.op = "insert_te" THEN call.y
    ELSE before.linked.val[DictGet(before.linked.active, call.x)].length

\* Ring a is ring b with the segment at index j of b split in two around one
\* new segment of the given length, everything else as it was.
C17_SplitAt(b, a, j, length) ==
    LET B == iter_pos(b)
        A == iter_pos(a)
    IN /\ Len(A) = Len(B) + 2
       /\ \A i \in 1..(j - 1) :
             A[i].ft = B[i].ft /\ a.val[A[i].ft].length = b.val[B[i].ft].length
       /\ A[j].ft = B[j].ft
       /\ a.val[A[j].ft].length + a.val[A[j + 2].ft].length = b.val[B[j].ft].length
       /\ A[j + 1].ft \notin Links(b)
       /\ A[j + 2].ft \notin Links(b)
       /\ a.val[A[j + 1].ft].length = length
       /\ \A i \in (j + 1)..Len(B) :
             A[i + 2].ft = B[i].ft /\ a.val[A[i + 2].ft].length = b.val[B[i].ft].length

C17_SplitConservesLength ==
    C17_Inserting =>
        /\ Total(linked) = Total(before.linked) + C17_InsertedLength
        /\ Cardinality(RingLinks(linked, linked.head))
              = Cardinality(RingLinks(before.linked, linked.head)) + 2
        /\ \E j \in 1..Len(iter_pos(before.linked)) :
              C17_SplitAt(before.linked, linked, j, C17_InsertedLength)

(***************************************************************************)
(* C18.  disable_te(id) on a LinkedListGenome, for an id that is active,   *)
(* changes only the kind of that element's segment, from 1 to 2, and       *)
(* removes only that id's index entry: the length of the genome, every     *)
(* other segment, the order and number of the nodes, every other index     *)
(* entry and the id counter are as before.                                 *)
(***************************************************************************)
C18_DisableActive == call.op = "disable_te" /\ call.x \in ActiveIds(before.linked)

C18_DisableChangesOnlyItsSegment ==
    C18_DisableActive =>
        LET b == before.linked
            ft == DictGet(b.active, call.x)
        IN /\ ret.linked = RetNone
           /\ b.val[ft].ft = 1
           /\ linked.val = [b.val EXCEPT ![ft] = Ft(2, b.val[ft].length)]
           /\ linked.prev = b.prev
           /\ linked.next = b.next
           /\ linked.head = b.head
           /\ linked.counter = b.counter
           /\ linked.active = DictPop(b.active, call.x)
           /\ Total(linked) = Total(b)

\* An active id was disabled while another id was active.
C18_Witness ==
    /\ C18_DisableActive
    /\ Len(before.linked.active) >= 2
    /\ Len(linked.active) = Len(before.linked.active) - 1

(***************************************************************************)
(* C19.  Disabled is absorbing: once an id has left active_tes() of a      *)
(* genome, no later insert_te, copy_te or disable_te makes it appear in    *)
(* that genome's active_tes() again, and no segment of kind 2 (disabled)   *)
(* ever becomes of kind 1 (active) or 0 (empty).                           *)
(* Violated: a second genome counts its ids from 1 again and registers     *)
(* them in the index shared by all instances, so an id the first genome    *)
(* issued and disabled is back in its active_tes().                        *)
(***************************************************************************)
\* The ids the first genome issued in earlier calls that were not in its
\* active_tes() when the last call began.
C19_Left ==
    {id \in {issued.linked[i] : i \in 1..Len(issued.linked)} :
        /\ id \notin ActiveIds(before.linked)
        /\ ~(call.op \in FirstCalls /\ ret.linked = RetInt(id))}

C19_DisabledIsAbsorbing ==
    /\ \A id \in C19_Left : id \notin ActiveIds(linked)
    /\ \A x \in Links(before.linked) :
          before.linked.val[x].ft = 2 => linked.val[x].ft = 2

(***************************************************************************)
(* C20.  Every copy_te on an active id terminates, for every integer       *)
(* offset, of either sign and of any magnitude, offsets that wrap around   *)
(* the genome several times included, in every state reached through      *)
(* calls that satisfy the preconditions.                                   *)
(***************************************************************************)
C20_CopyActive == call.op = "copy_te" /\ call.x \in ActiveIds(before.linked)

C20_CopyTerminates == C20_CopyActive => ret.linked # Hang

\* A copy whose offset is at least twice the length of the genome has
\* returned.
C20_Witness ==
    /\ C20_CopyActive
    /\ abs(call.y) >= 2 * Total(before.linked)
    /\ ret.linked.kind = "int"
    /\ Total(linked) > Total(before.linked)

=============================================================================
